---- MODULE Spec2Model ----
(***************************************************************************)
(* The entity-selection state machine of the SelectEntities GUI plugin      *)
(* (src/include/gz/sim/components/Material.hh, lines 91-400).               *)
(*                                                                          *)
(* One action per event type handled by SelectEntities::eventFilter.  A     *)
(* handler runs to completion, so each action is the whole handler; the     *)
(* order of what the handler does inside (list changes, ray-casts, events   *)
(* sent to the main window) is kept in the variable trace, which holds the  *)
(* calls made by the most recent handler.                                   *)
(***************************************************************************)
EXTENDS Integers, Sequences, FiniteSets, TLC

(***************************************************************************)
(* Bounds of the model.                                                     *)
(***************************************************************************)
\* The visuals of the scene that carry "gazebo-entity" user data are
\* 1..NumVisuals.
NumVisuals == 3
\* The selection list is a std::vector and can grow without limit; a Render
\* handler that would make it longer than this is not taken.
MaxSelected == 2
\* Clicks of a session in which the two threads' steps interleave.
MaxRaceClicks == 3

(***************************************************************************)
(* The rendering scene.                                                     *)
(***************************************************************************)
kNullEntity == 0
\* A null rendering::VisualPtr.
NullVisual == 0

\* The visuals whose "gazebo-entity" user data holds an int.
Visuals == 1..NumVisuals

\* A visual without "gazebo-entity" user data, such as the visual HighlightNode
\* creates for a wire box (lines 231-236).
WireBoxVisual == NumVisuals + 1

\* Every visual of the scene.
SceneVisuals == Visuals \cup {WireBoxVisual}

\* rendering::Visual::Id(): the rendering id of a visual.
VisualId(v) == v

\* std::get<int>(visual->UserData("gazebo-entity")) throws
\* std::bad_variant_access: the visual's user data does not hold an int.
BadVariantAccess(v) == v # NullVisual /\ v \notin Visuals

\* std::get<int>(visual->UserData("gazebo-entity")) where it does not throw:
\* the simulation entity id of a visual.  Visual 1 carries kNullEntity; every
\* other visual of Visuals carries an entity id that differs from its
\* rendering id, and the two id spaces overlap (the rendering id of visual 2
\* is the entity id of visual 3).
UserData(v) == v - 1

\* Screen positions a click can have: position p > 0 is over visual p,
\* position 0 is over empty space.
Positions == 0..(NumVisuals + 1)

\* rendering::Scene::VisualAt(camera, pos) with a scene and a camera.
VisualAt(pos) == IF pos \in SceneVisuals THEN pos ELSE NullVisual

\* rendering::Scene::VisualById(id)
VisualById(id) ==
  IF \E v \in SceneVisuals : VisualId(v) = id
  THEN CHOOSE v \in SceneVisuals : VisualId(v) = id
  ELSE NullVisual

(***************************************************************************)
(* State of SelectEntitiesPrivate, and what the model records about the     *)
(* most recent handler.                                                     *)
(***************************************************************************)
VARIABLES
  selectionHelper,          \* SelectionHelper
  selectedEntities,         \* std::vector<Entity>
  scene,                    \* TRUE when the ScenePtr is not null
  wireBoxes,                \* entity id -> visibility of the box's parent visual
  mouseEvent,               \* the position of the stored common::MouseEvent
  mouseDirty,
  camera,                   \* TRUE when the CameraPtr is not null
  transformControlActive,
  trace,                    \* calls made by the most recent handler, in order
  last,                     \* the most recent event and its inputs
  everSelected,             \* entity ids of the visuals ever appended to the list
  crashed,                  \* the process was ended by a null dereference or
                            \* by an exception that nothing caught
  clicks,                   \* positions of the last two clicks that no Render
                            \* has consumed yet, oldest first
  race                      \* where the UI thread and the render thread are in
                            \* their handlers, and which click each ray-cast
                            \* worked on (used when the handlers interleave)

vars == <<selectionHelper, selectedEntities, scene, wireBoxes, mouseEvent,
          mouseDirty, camera, transformControlActive, trace, last,
          everSelected, crashed, clicks, race>>

\* SelectionHelper()
DefaultSelectionHelper ==
  [selectEntity |-> kNullEntity, deselectAll |-> FALSE, sendEvent |-> FALSE]

\* One entry of trace.
Call(op, arg) == [op |-> op, arg |-> arg]

EmptyBoxes == [e \in {} |-> TRUE]

\* Both threads outside their handlers, no click made yet:
\*   ui      "idle", or "dirty" between lines 379 and 380;
\*   render  "idle", "clear" between lines 155 and 158, "cast" between
\*           lines 158 and 160, or "update" between lines 162 and 164;
\*   pos     the position the Render handler read at line 162;
\*   visual  the visual its ray-cast returned;
\*   issued  the number of clicks so far;
\*   holder  the number of the click whose position mouseEvent holds;
\*   casts   for each click, how many Render callbacks ray-cast it.
IdleThreads ==
  [ui |-> "idle", render |-> "idle", pos |-> 0, visual |-> NullVisual,
   issued |-> 0, holder |-> 0, casts |-> [k \in 1..MaxRaceClicks |-> 0]]

(***************************************************************************)
(* The member functions, as operators on a record d holding the members     *)
(* they read and write:                                                     *)
(*   d.selectedEntities, d.wireBoxes, d.selectionHelper, d.scene,           *)
(*   d.transformControlActive, d.trace                                      *)
(* and d.thrown, which is TRUE when std::bad_variant_access has been thrown *)
(* and is leaving the handler: nothing in this file catches it.             *)
(***************************************************************************)

\* The members as std::get<int> leaves them when it throws.
Throw(d) ==
  [d EXCEPT !.thrown = TRUE,
            !.trace = Append(@, Call("throw bad_variant_access", <<>>))]

\* LowlightNode that forgets the box instead of hiding it.
LowlightNodeErase(boxes, visual) ==
  LET entityId == IF visual # NullVisual THEN UserData(visual) ELSE kNullEntity
  IN  [e \in (DOMAIN boxes) \ {entityId} |-> boxes[e]]

\* LowlightNode that leaves the box visible.
LowlightNodeSkip(boxes, visual) == boxes

\* SelectEntitiesPrivate::LowlightNode: wireBoxes after the call.  When
\* line 192 throws (BadVariantAccess(visual)) the map is as it was.
LowlightNode(boxes, visual) ==
  LET entityId == IF visual # NullVisual THEN UserData(visual) ELSE kNullEntity
  IN  IF BadVariantAccess(visual)
      THEN boxes
      ELSE IF entityId \in DOMAIN boxes
      THEN [boxes EXCEPT ![entityId] = FALSE]
      ELSE boxes

\* SelectEntitiesPrivate::HighlightNode: wireBoxes after the call.  When
\* line 209 throws (BadVariantAccess(visual)) the map is as it was.
HighlightNode(boxes, visual) ==
  LET entityId == IF visual # NullVisual THEN UserData(visual) ELSE kNullEntity
  IN  IF BadVariantAccess(visual)
      THEN boxes
      ELSE IF entityId \notin DOMAIN boxes
      THEN boxes @@ (entityId :> TRUE)
      ELSE [boxes EXCEPT ![entityId] = TRUE]

\* SetSelectedEntity that sends no event.
SetSelectedEntitySilent(d, visual) ==
  LET entityId == IF visual # NullVisual THEN UserData(visual) ELSE kNullEntity
  IN  IF entityId = kNullEntity
      THEN d
      ELSE [d EXCEPT
              !.selectedEntities = Append(@, VisualId(visual)),
              !.wireBoxes = HighlightNode(@, visual),
              !.trace = Append(@, Call("push_back", <<VisualId(visual)>>))]

\* SetSelectedEntity that puts the new selection at the front of the list.
SetSelectedEntityFront(d, visual) ==
  LET entityId == IF visual # NullVisual THEN UserData(visual) ELSE kNullEntity
      selected == <<VisualId(visual)>> \o d.selectedEntities
  IN  IF entityId = kNullEntity
      THEN d
      ELSE [d EXCEPT
              !.selectedEntities = selected,
              !.wireBoxes = HighlightNode(@, visual),
              !.trace = @ \o <<Call("push_back", <<VisualId(visual)>>),
                               Call("send EntitiesSelected", selected)>>]

\* SelectEntitiesPrivate::SetSelectedEntity
SetSelectedEntity(d, visual) ==
  LET entityId == IF visual # NullVisual THEN UserData(visual) ELSE kNullEntity
      selected == Append(d.selectedEntities, VisualId(visual))
  IN  IF BadVariantAccess(visual)
      THEN Throw(d)
      ELSE IF entityId = kNullEntity
      THEN d
      ELSE [d EXCEPT
              !.selectedEntities = selected,
              !.wireBoxes = HighlightNode(@, visual),
              !.trace = @ \o <<Call("push_back", <<VisualId(visual)>>),
                               Call("send EntitiesSelected", selected)>>]

\* The first iteration of the loop of DeselectAllEntities in which
\* LowlightNode throws, 0 when none does.
FirstThrow(selected) ==
  LET bad == {i \in 1..Len(selected) :
                BadVariantAccess(VisualById(selected[i]))}
  IN  IF bad = {} THEN 0 ELSE CHOOSE i \in bad : \A j \in bad : i <= j

\* The loop of DeselectAllEntities over the first n selected entities: b is
\* wireBoxes after the first n - 1 iterations.
RECURSIVE LowlightAll(_, _, _)
LowlightAll(boxes, selected, n) ==
  IF n = 0
  THEN boxes
  ELSE CHOOSE after \in {LowlightNode(b, VisualById(selected[n])) :
                            b \in {LowlightAll(boxes, selected, n - 1)}} : TRUE

\* DeselectAllEntities that drops only the most recent selection.
DeselectAllEntitiesLast(d) ==
  LET n == Len(d.selectedEntities)
      rest == IF n = 0 THEN <<>> ELSE SubSeq(d.selectedEntities, 1, n - 1)
  IN  [d EXCEPT
         !.wireBoxes = LowlightAll(@, d.selectedEntities, n),
         !.selectedEntities = rest,
         !.trace = @ \o <<Call("clear", <<>>),
                          Call("send DeselectAllEntities", <<>>),
                          Call("return DeselectAllEntities", rest)>>]

\* SelectEntitiesPrivate::DeselectAllEntities; the last entry it adds to the
\* trace holds selectedEntities as it is when the function returns.
DeselectAllEntities(d) ==
  LET t  == FirstThrow(d.selectedEntities)
      d1 == IF ~d.scene
            THEN d
            ELSE IF t # 0
            THEN Throw([d EXCEPT
                          !.wireBoxes = LowlightAll(@, d.selectedEntities,
                                                    t - 1)])
            ELSE [d EXCEPT
                    !.wireBoxes = LowlightAll(@, d.selectedEntities,
                                              Len(d.selectedEntities)),
                    !.selectedEntities = <<>>,
                    !.trace = @ \o <<Call("clear", <<>>),
                                     Call("send DeselectAllEntities", <<>>)>>]
  IN  IF d1.thrown
      THEN d1
      ELSE [d1 EXCEPT !.trace = Append(@, Call("return DeselectAllEntities",
                                               d1.selectedEntities))]

\* UpdateSelectedEntity that does not look at transformControlActive.
UpdateSelectedEntityNoTransform(d, visual, sendEvent, ctrl) ==
  LET deselectedAll == ~ctrl /\ d.selectedEntities # <<>>
      d1 == IF deselectedAll THEN DeselectAllEntities(d) ELSE d
      d2 == SetSelectedEntity(d1, visual)
  IN  IF sendEvent \/ deselectedAll
      THEN [d2 EXCEPT !.trace = Append(@, Call("send EntitiesSelected",
                                               d2.selectedEntities))]
      ELSE d2

\* UpdateSelectedEntity that keeps the selection when ctrl is not held.
UpdateSelectedEntityKeep(d, visual, sendEvent, ctrl) ==
  LET deselectedAll == d.transformControlActive
      d1 == IF deselectedAll THEN DeselectAllEntities(d) ELSE d
      d2 == SetSelectedEntity(d1, visual)
  IN  IF sendEvent \/ deselectedAll
      THEN [d2 EXCEPT !.trace = Append(@, Call("send EntitiesSelected",
                                               d2.selectedEntities))]
      ELSE d2

\* UpdateSelectedEntity that sends the closing event only when _sendEvent.
UpdateSelectedEntityNoClosing(d, visual, sendEvent, ctrl) ==
  LET deselectedAll == (~ctrl /\ d.selectedEntities # <<>>)
                         \/ d.transformControlActive
      d1 == IF deselectedAll THEN DeselectAllEntities(d) ELSE d
      d2 == SetSelectedEntity(d1, visual)
  IN  IF sendEvent
      THEN [d2 EXCEPT !.trace = Append(@, Call("send EntitiesSelected",
                                               d2.selectedEntities))]
      ELSE d2

\* SelectEntitiesPrivate::UpdateSelectedEntity; ctrl is
\* QGuiApplication::keyboardModifiers() & Qt::ControlModifier.
UpdateSelectedEntity(d, visual, sendEvent, ctrl) ==
  LET deselectedAll == (~ctrl /\ d.selectedEntities # <<>>)
                         \/ d.transformControlActive
      \* Line 312, from the members d1 that lines 302-309 leave.
      Select(d1) == IF d1.thrown THEN d1 ELSE SetSelectedEntity(d1, visual)
      \* Lines 315-322, from the members d2 that line 312 leaves.
      Notify(d2) ==
        IF d2.thrown
        THEN d2
        ELSE IF sendEvent \/ deselectedAll
        THEN [d2 EXCEPT !.trace = Append(@, Call("send EntitiesSelected",
                                                 d2.selectedEntities))]
        ELSE d2
  IN  CHOOSE after \in
        {Notify(d2) : d2 \in
           {Select(d1) : d1 \in
              {IF deselectedAll THEN DeselectAllEntities(d) ELSE d}}} : TRUE

\* HandleEntitySelection that keeps the selection when ctrl is held and the
\* ray-cast hits nothing.
HandleVisualKeepOnMiss(d, visual, ctrl) ==
  IF visual = NullVisual
  THEN IF ctrl THEN d ELSE DeselectAllEntities(d)
  ELSE IF BadVariantAccess(visual)
  THEN Throw(d)
  ELSE LET d1 == [d EXCEPT !.selectionHelper.selectEntity = UserData(visual)]
       IN  IF d1.selectionHelper.selectEntity # kNullEntity
           THEN [UpdateSelectedEntity(d1, visual,
                                      d1.selectionHelper.sendEvent, ctrl)
                   EXCEPT !.selectionHelper = DefaultSelectionHelper]
           ELSE d1

\* HandleEntitySelection that deselects all when the visual hit carries
\* kNullEntity.
HandleVisualNullDeselects(d, visual, ctrl) ==
  IF visual = NullVisual
  THEN DeselectAllEntities(d)
  ELSE IF BadVariantAccess(visual)
  THEN Throw(d)
  ELSE LET d1 == [d EXCEPT !.selectionHelper.selectEntity = UserData(visual)]
       IN  IF d1.selectionHelper.selectEntity # kNullEntity
           THEN [UpdateSelectedEntity(d1, visual,
                                      d1.selectionHelper.sendEvent, ctrl)
                   EXCEPT !.selectionHelper = DefaultSelectionHelper]
           ELSE DeselectAllEntities(d1)

\* SelectEntitiesPrivate::HandleEntitySelection from the result of the
\* ray-cast on (lines 164-185).  An exception thrown at line 170, or inside
\* the calls of lines 174 and 180, leaves the function there.
HandleVisual(d, visual, ctrl) ==
  IF visual = NullVisual
  THEN DeselectAllEntities(d)
  ELSE IF BadVariantAccess(visual)
  THEN Throw(d)
  ELSE LET d1 == [d EXCEPT !.selectionHelper.selectEntity = UserData(visual)]
           \* Lines 176 and 183, from the members d2 that the call of line
           \* 174 or 180 leaves.
           Reset(d2) ==
             IF d2.thrown
                \/ (~d1.selectionHelper.deselectAll
                      /\ d1.selectionHelper.selectEntity = kNullEntity)
             THEN d2
             ELSE [d2 EXCEPT !.selectionHelper = DefaultSelectionHelper]
       IN  CHOOSE after \in
             {Reset(d2) : d2 \in
                {IF d1.selectionHelper.deselectAll
                 THEN DeselectAllEntities(d1)
                 ELSE IF d1.selectionHelper.selectEntity # kNullEntity
                 THEN UpdateSelectedEntity(d1, visual,
                                           d1.selectionHelper.sendEvent, ctrl)
                 ELSE d1}} : TRUE

\* Initialize that looks the camera up again while it is null.
InitializeCameraRetry(sceneAvail, camAvail) ==
  IF ~camera /\ (scene \/ sceneAvail) THEN camAvail ELSE camera

\* SelectEntitiesPrivate::Initialize: the scene and the camera after the
\* call, when sceneFromFirstRenderEngine() returns a scene iff sceneAvail and
\* SensorByName("Scene3DCamera") returns a camera iff camAvail.
InitializeScene(sceneAvail) == IF ~scene THEN sceneAvail ELSE scene
InitializeCamera(sceneAvail, camAvail) ==
  IF ~scene /\ sceneAvail THEN camAvail ELSE camera

\* The entries of a trace with one of the given operations.
Entries(tr, ops) == {i \in 1..Len(tr) : tr[i].op \in ops}

\* Entity ids of the visuals a trace appended to the selection list.
Appended(tr) ==
  {UserData(VisualById(tr[i].arg[1])) : i \in Entries(tr, {"push_back"})}

(***************************************************************************)
(* Initial state: the members' initialisers (lines 127-145).                *)
(***************************************************************************)
Init ==
  /\ selectionHelper = DefaultSelectionHelper
  /\ selectedEntities = <<>>
  /\ scene = FALSE
  /\ wireBoxes = EmptyBoxes
  /\ mouseEvent = 0
  /\ mouseDirty = FALSE
  /\ camera = FALSE
  /\ transformControlActive = FALSE
  /\ trace = <<>>
  /\ last = [kind |-> "Init", ctrl |-> FALSE, hit |-> -1, dirty |-> FALSE,
             preLen |-> 0, clicks |-> <<>>, camAvail |-> FALSE]
  /\ everSelected = {}
  /\ crashed = FALSE
  /\ clicks = <<>>
  /\ race = IdleThreads

\* What last records for a handler that issues no ray-cast.
NoRayCast(kind) ==
  [kind |-> kind, ctrl |-> FALSE, hit |-> -1, dirty |-> mouseDirty,
   preLen |-> Len(selectedEntities), clicks |-> <<>>, camAvail |-> FALSE]

\* The pending clicks after a click at pos.
Pending(pos) ==
  IF clicks = <<>> THEN <<pos>> ELSE <<clicks[Len(clicks)], pos>>

\* LeftClickOnScene that keeps the first pending request instead of the
\* latest.
LeftClickOnSceneKeepFirst ==
  /\ ~crashed
  /\ \E pos \in Positions :
       /\ mouseEvent' = IF mouseDirty THEN mouseEvent ELSE pos
       /\ clicks' = Pending(pos)
  /\ mouseDirty' = TRUE
  /\ trace' = <<>>
  /\ last' = NoRayCast("LeftClickOnScene")
  /\ UNCHANGED <<selectionHelper, selectedEntities, scene, wireBoxes, camera,
                 transformControlActive, everSelected, crashed, race>>

(***************************************************************************)
(* eventFilter, LeftClickOnScene (lines 375-381).                           *)
(***************************************************************************)
LeftClickOnScene ==
  /\ ~crashed
  /\ \E pos \in Positions :
       /\ mouseEvent' = pos
       /\ clicks' = Pending(pos)
  /\ mouseDirty' = TRUE
  /\ trace' = <<>>
  /\ last' = NoRayCast("LeftClickOnScene")
  /\ UNCHANGED <<selectionHelper, selectedEntities, scene, wireBoxes, camera,
                 transformControlActive, everSelected, crashed, race>>

(***************************************************************************)
(* eventFilter, TransformControlMode (lines 387-392).                       *)
(***************************************************************************)
TransformControlMode ==
  /\ ~crashed
  /\ \E active \in BOOLEAN : transformControlActive' = active
  /\ trace' = <<>>
  /\ last' = NoRayCast("TransformControlMode")
  /\ UNCHANGED <<selectionHelper, selectedEntities, scene, wireBoxes,
                 mouseEvent, mouseDirty, camera, everSelected, crashed,
                 clicks, race>>

(***************************************************************************)
(* eventFilter, Render (lines 382-386): Initialize, then                    *)
(* HandleEntitySelection.                                                   *)
(***************************************************************************)

\* The members HandleEntitySelection works on, after Initialize and the
\* ray-cast at pos.
Members(sc, pos) ==
  [selectedEntities |-> selectedEntities, wireBoxes |-> wireBoxes,
   selectionHelper |-> selectionHelper, scene |-> sc,
   transformControlActive |-> transformControlActive,
   trace |-> <<Call("VisualAt", <<pos>>)>>, thrown |-> FALSE]

\* The handler's effect when the ray-cast at pos returns visual.  An
\* exception that leaves HandleEntitySelection also leaves eventFilter; what
\* the caller of eventFilter does with it is outside this code: the process
\* ends, or the caller catches it and the session goes on.
Selected(sc, pos, visual, ctrl) ==
  \E d0 \in {Members(sc, pos)} : \E d \in {HandleVisual(d0, visual, ctrl)} :
      /\ Len(d.selectedEntities) <= MaxSelected
      /\ selectedEntities' = d.selectedEntities
      /\ wireBoxes' = d.wireBoxes
      /\ selectionHelper' = d.selectionHelper
      /\ trace' = d.trace
      /\ everSelected' = everSelected \cup Appended(d.trace)
      /\ last' = [kind |-> "Render", ctrl |-> ctrl, hit |-> visual,
                  dirty |-> TRUE, preLen |-> Len(selectedEntities),
                  clicks |-> clicks, camAvail |-> FALSE]
      /\ clicks' = <<>>
      /\ crashed' \in (IF d.thrown THEN BOOLEAN ELSE {crashed})

\* The handler's effect when the ray-cast ends the process.
Crash ==
  /\ crashed' = TRUE
  /\ trace' = <<Call("VisualAt", <<mouseEvent>>)>>
  /\ last' = [kind |-> "Render", ctrl |-> FALSE, hit |-> -1, dirty |-> TRUE,
              preLen |-> Len(selectedEntities), clicks |-> clicks,
              camAvail |-> FALSE]
  /\ clicks' = <<>>
  /\ UNCHANGED <<selectionHelper, selectedEntities, wireBoxes, everSelected>>

\* Render that ray-casts the stored mouse event without a click pending.
RenderIdleRayCast ==
  /\ ~crashed
  /\ ~mouseDirty
  /\ scene /\ camera
  /\ \E ctrl \in BOOLEAN :
       Selected(scene, mouseEvent, VisualAt(mouseEvent), ctrl)
  /\ UNCHANGED <<scene, camera, mouseEvent, mouseDirty,
                 transformControlActive, race>>

\* Render with no click pending: HandleEntitySelection returns at line 156.
RenderIdle ==
  /\ ~crashed
  /\ ~mouseDirty
  /\ \E sceneAvail, camAvail \in BOOLEAN :
       /\ scene' = InitializeScene(sceneAvail)
       /\ camera' = InitializeCamera(sceneAvail, camAvail)
       /\ last' = [NoRayCast("Render") EXCEPT !.camAvail = camAvail]
  /\ trace' = <<>>
  /\ UNCHANGED <<selectionHelper, selectedEntities, wireBoxes, mouseEvent,
                 mouseDirty, transformControlActive, everSelected, crashed,
                 clicks, race>>

\* Render that works on the pending click and leaves mouseDirty set.
RenderSelectKeepDirty ==
  /\ ~crashed
  /\ mouseDirty
  /\ \E sceneAvail, camAvail, ctrl \in BOOLEAN :
       /\ scene' = InitializeScene(sceneAvail)
       /\ camera' = InitializeCamera(sceneAvail, camAvail)
       /\ scene' /\ camera'
       /\ Selected(scene', mouseEvent, VisualAt(mouseEvent), ctrl)
  /\ UNCHANGED <<mouseEvent, mouseDirty, transformControlActive, race>>

\* Render with a click pending, a scene and a camera.
RenderSelect ==
  /\ ~crashed
  /\ mouseDirty
  /\ mouseDirty' = FALSE
  /\ \E sceneAvail, camAvail, ctrl \in BOOLEAN :
       /\ scene' = InitializeScene(sceneAvail)
       /\ camera' = InitializeCamera(sceneAvail, camAvail)
       /\ scene' /\ camera'
       /\ Selected(scene', mouseEvent, VisualAt(mouseEvent), ctrl)
  /\ UNCHANGED <<mouseEvent, transformControlActive, race>>

\* Render with a click pending and no scene: line 160 calls VisualAt through
\* the null ScenePtr, a virtual call through a null pointer, which ends the
\* process.
RenderNullScene ==
  /\ ~crashed
  /\ mouseDirty
  /\ mouseDirty' = FALSE
  /\ \E sceneAvail, camAvail \in BOOLEAN :
       /\ scene' = InitializeScene(sceneAvail)
       /\ camera' = InitializeCamera(sceneAvail, camAvail)
       /\ ~scene'
  /\ Crash
  /\ UNCHANGED <<mouseEvent, transformControlActive, race>>

\* Render with a click pending, a scene and no camera: line 160 passes the
\* null CameraPtr to the rendering library.  What the library does with it is
\* outside this code: it may end the process, or return any visual or none.
RenderNullCamera ==
  /\ ~crashed
  /\ mouseDirty
  /\ mouseDirty' = FALSE
  /\ \E sceneAvail, camAvail, ctrl \in BOOLEAN :
       /\ scene' = InitializeScene(sceneAvail)
       /\ camera' = InitializeCamera(sceneAvail, camAvail)
       /\ scene' /\ ~camera'
       /\ \/ Crash
          \/ \E visual \in SceneVisuals \cup {NullVisual} :
               Selected(scene', mouseEvent, visual, ctrl)
  /\ UNCHANGED <<mouseEvent, transformControlActive, race>>

Render == RenderIdle \/ RenderSelect \/ RenderNullScene \/ RenderNullCamera

Next == LeftClickOnScene \/ TransformControlMode \/ Render

Spec == Init /\ [][Next]_vars

\* Render in a session in which the rendering engine has a scene with a
\* sensor named Scene3DCamera: Initialize finds both.
RenderAvail == (RenderIdle \/ RenderSelect) /\ scene' /\ camera'

NextAvail == LeftClickOnScene \/ TransformControlMode \/ RenderAvail

\* Such a session, with fairness: the render loop of the GUI sends a Render
\* event for every frame, so a Render handler that can run eventually does.
SpecFair == Init /\ [][NextAvail]_vars /\ WF_vars(RenderAvail)

(***************************************************************************)
(* The same handlers with the click handler on the UI thread and the Render *)
(* handler on the render thread.  No lock guards mouseEvent and mouseDirty, *)
(* so the threads interleave between the handlers' individual reads and     *)
(* writes of the two members: one action per such read or write.  The       *)
(* session has a scene with its camera, and at most MaxRaceClicks clicks.   *)
(***************************************************************************)

\* UI thread, line 379: the click handler stores the mouse event.
ClickWriteEvent ==
  /\ ~crashed
  /\ race.ui = "idle"
  /\ race.issued < MaxRaceClicks
  /\ \E pos \in Positions : mouseEvent' = pos
  /\ race' = [race EXCEPT !.ui = "dirty", !.issued = @ + 1,
                          !.holder = race.issued + 1]
  /\ UNCHANGED <<selectionHelper, selectedEntities, scene, wireBoxes,
                 mouseDirty, camera, transformControlActive, trace, last,
                 everSelected, crashed, clicks>>

\* UI thread, line 380: the click handler sets the flag and returns.
ClickWriteDirty ==
  /\ ~crashed
  /\ race.ui = "dirty"
  /\ mouseDirty' = TRUE
  /\ clicks' = Pending(mouseEvent)
  /\ race' = [race EXCEPT !.ui = "idle"]
  /\ UNCHANGED <<selectionHelper, selectedEntities, scene, wireBoxes,
                 mouseEvent, camera, transformControlActive, trace, last,
                 everSelected, crashed>>

\* Render thread, lines 384-385 and 155-156: Initialize, then
\* HandleEntitySelection reads the flag and returns when it is not set.
RenderReadDirty ==
  /\ ~crashed
  /\ race.render = "idle"
  /\ \E sceneAvail, camAvail \in BOOLEAN :
       /\ scene' = InitializeScene(sceneAvail)
       /\ camera' = InitializeCamera(sceneAvail, camAvail)
       /\ scene' /\ camera'
       /\ last' = [NoRayCast("Render") EXCEPT !.camAvail = camAvail]
  /\ race' = [race EXCEPT !.render = IF mouseDirty THEN "clear" ELSE "idle"]
  /\ trace' = <<>>
  /\ UNCHANGED <<selectionHelper, selectedEntities, wireBoxes, mouseEvent,
                 mouseDirty, transformControlActive, everSelected, crashed,
                 clicks>>

\* Render thread, line 158: HandleEntitySelection clears the flag.
RenderClearDirty ==
  /\ ~crashed
  /\ race.render = "clear"
  /\ mouseDirty' = FALSE
  /\ race' = [race EXCEPT !.render = "cast"]
  /\ UNCHANGED <<selectionHelper, selectedEntities, scene, wireBoxes,
                 mouseEvent, camera, transformControlActive, trace, last,
                 everSelected, crashed, clicks>>

\* Render thread, lines 160-162: HandleEntitySelection reads mouseEvent and
\* ray-casts its position.
RenderRayCast ==
  /\ ~crashed
  /\ race.render = "cast"
  /\ race' = [race EXCEPT !.render = "update", !.pos = mouseEvent,
                          !.visual = VisualAt(mouseEvent),
                          !.casts[race.holder] = @ + 1]
  /\ trace' = <<Call("VisualAt", <<mouseEvent>>)>>
  /\ UNCHANGED <<selectionHelper, selectedEntities, scene, wireBoxes,
                 mouseEvent, mouseDirty, camera, transformControlActive, last,
                 everSelected, crashed, clicks>>

\* Render thread, lines 164-185: HandleEntitySelection works on the visual
\* the ray-cast returned.  Of the members the UI thread writes it reads only
\* transformControlActive, once, at line 303.
RenderUpdate ==
  /\ ~crashed
  /\ race.render = "update"
  /\ \E ctrl \in BOOLEAN : Selected(scene, race.pos, race.visual, ctrl)
  /\ race' = [race EXCEPT !.render = "idle"]
  /\ UNCHANGED <<scene, camera, mouseEvent, mouseDirty,
                 transformControlActive>>

\* UI thread, lines 387-392: the one write of the TransformControlMode
\* handler, between two click handlers.
TransformControlModeWrite ==
  /\ race.ui = "idle"
  /\ TransformControlMode

NextRace ==
  \/ ClickWriteEvent
  \/ ClickWriteDirty
  \/ TransformControlModeWrite
  \/ RenderReadDirty
  \/ RenderClearDirty
  \/ RenderRayCast
  \/ RenderUpdate

SpecRace == Init /\ [][NextRace]_vars

(***************************************************************************)
(* Vocabulary of the properties.                                            *)
(***************************************************************************)
Sends == {"send EntitiesSelected", "send DeselectAllEntities"}
Changes == {"push_back", "clear"}

\* The identifiers in the selection list.
SelectedIds == {selectedEntities[i] : i \in 1..Len(selectedEntities)}

\* The most recent handler was a Render that ray-cast a pending click and the
\* ray-cast returned a visual carrying a non-null entity.
ProcessedEntityClick ==
  /\ last.kind = "Render"
  /\ last.hit \in Visuals
  /\ UserData(last.hit) # kNullEntity

(***************************************************************************)
(* C1: no identifier occurs more than once in selectedEntities, in every    *)
(* reachable state.                                                         *)
(***************************************************************************)
C1_NoDuplicateSelected ==
  \A i, j \in 1..Len(selectedEntities) :
    i # j => selectedEntities[i] # selectedEntities[j]

(***************************************************************************)
(* C2: whenever DeselectAllEntities returns, selectedEntities is empty:     *)
(* every return of it recorded by the last handler found the list empty,    *)
(* and when it was the handler's last call the list is empty afterwards.    *)
(***************************************************************************)
C2_DeselectAllEmpties ==
  /\ \A i \in Entries(trace, {"return DeselectAllEntities"}) :
       trace[i].arg = <<>>
  /\ (trace # <<>> /\ trace[Len(trace)].op = "return DeselectAllEntities")
       => selectedEntities = <<>>

\* DeselectAllEntities was called to replace a selection of several entities.
C2_Witness ==
  /\ ProcessedEntityClick
  /\ last.preLen >= 2
  /\ Entries(trace, {"return DeselectAllEntities"}) # {}

(***************************************************************************)
(* C3: every identifier in selectedEntities, and every identifier carried   *)
(* by an EntitiesSelected event, is the entity id ("gazebo-entity" user     *)
(* data) of a visual that was clicked and selected.                         *)
(***************************************************************************)
C3_SelectedAreEntityIds ==
  /\ SelectedIds \subseteq everSelected
  /\ \A i \in Entries(trace, {"send EntitiesSelected"}) :
       \A k \in 1..Len(trace[i].arg) : trace[i].arg[k] \in everSelected

(***************************************************************************)
(* C4: a click on an entity processed while transformControlActive is true  *)
(* leaves selectedEntities with exactly one element, that of the clicked    *)
(* visual, whatever the ctrl modifier and the previous selection.           *)
(***************************************************************************)
C4_TransformClickSelectsOne ==
  (ProcessedEntityClick /\ transformControlActive)
    => selectedEntities = <<VisualId(last.hit)>>

\* Such a click with ctrl held and several entities selected before.
C4_Witness ==
  /\ ProcessedEntityClick
  /\ transformControlActive
  /\ last.ctrl
  /\ last.preLen >= 2

(***************************************************************************)
(* C5: a wire box exists for an entity iff that entity has been selected    *)
(* before; no step removes a wire box.                                      *)
(***************************************************************************)
C5_WireBoxIffEverSelected ==
  [][/\ DOMAIN wireBoxes = everSelected
     /\ DOMAIN wireBoxes' = everSelected'
     /\ DOMAIN wireBoxes \subseteq DOMAIN wireBoxes']_vars

\* Two entities were selected and then deselected; their boxes remain.
C5_Witness ==
  /\ Cardinality(everSelected) >= 2
  /\ selectedEntities = <<>>
  /\ DOMAIN wireBoxes = everSelected

(***************************************************************************)
(* C6: every change of selectedEntities is made by a push_back or a clear   *)
(* of the handler, and each of those is followed, later in the same         *)
(* handler, by an event sent to the main window.                            *)
(***************************************************************************)
C6_ChangesAreNotified ==
  [][/\ selectedEntities' # selectedEntities
          => Entries(trace', Changes) # {}
     /\ \A i \in Entries(trace', Changes) :
          \E j \in Entries(trace', Sends) : j > i]_vars

\* A handler that both cleared the list and appended to it.
C6_Witness ==
  /\ Entries(trace, {"clear"}) # {}
  /\ Entries(trace, {"push_back"}) # {}

(***************************************************************************)
(* C7: a LeftClickOnScene event changes only mouseEvent and mouseDirty      *)
(* (which it sets), a TransformControlMode event changes only               *)
(* transformControlActive, and selectedEntities, wireBoxes (with the boxes' *)
(* visibility) and the events sent change only in a Render handler that     *)
(* finds mouseDirty true.                                                   *)
(***************************************************************************)
C7_SelectionOnlyInDirtyRender ==
  [][/\ last'.kind = "LeftClickOnScene"
          => /\ mouseDirty'
             /\ UNCHANGED <<selectionHelper, selectedEntities, scene,
                            wireBoxes, camera, transformControlActive>>
     /\ last'.kind = "TransformControlMode"
          => UNCHANGED <<selectionHelper, selectedEntities, scene,
                         wireBoxes, camera, mouseEvent, mouseDirty>>
     /\ (\/ selectedEntities' # selectedEntities
         \/ wireBoxes' # wireBoxes
         \/ Entries(trace', Sends) # {})
          => (last'.kind = "Render" /\ mouseDirty)
     /\ (last'.kind = "Render" /\ ~mouseDirty)
          => /\ UNCHANGED <<selectedEntities, wireBoxes>>
             /\ trace' = <<>>]_vars

\* A click is pending on a visual while another one is selected, and the
\* click has not changed the selection.
C7_Witness ==
  /\ last.kind = "LeftClickOnScene"
  /\ mouseDirty
  /\ mouseEvent \in Visuals
  /\ selectedEntities # <<>>
  /\ VisualId(mouseEvent) \notin SelectedIds

(***************************************************************************)
(* C8: when the scene or the camera is null, the Render handler returns     *)
(* early: it issues no ray-cast (VisualAt).                                 *)
(***************************************************************************)
C8_NoRayCastOnNull ==
  (~scene \/ ~camera) => Entries(trace, {"VisualAt"}) = {}

(***************************************************************************)
(* C9: the wire box of an entity is visible iff that entity's visual is in  *)
(* selectedEntities (the scene's visuals are never removed in this model).  *)
(***************************************************************************)
C9_HighlightIsSelection ==
  \A v \in Visuals :
    UserData(v) # kNullEntity
      => ((VisualId(v) \in SelectedIds)
            <=> (UserData(v) \in DOMAIN wireBoxes /\ wireBoxes[UserData(v)]))

\* At the end of a Render one box is shown and another one is hidden.
C9_Witness ==
  /\ last.kind = "Render"
  /\ \E e \in DOMAIN wireBoxes : wireBoxes[e]
  /\ \E e \in DOMAIN wireBoxes : ~wireBoxes[e]

(***************************************************************************)
(* C10, as stated: in every reachable state in which transformControlActive *)
(* is true, selectedEntities holds at most one element.                     *)
(***************************************************************************)
C10_TransformAtMostOne ==
  transformControlActive => Len(selectedEntities) <= 1

(***************************************************************************)
(* C10, amended: a step taken while transformControlActive is true either   *)
(* leaves selectedEntities as it was or leaves it with at most one element. *)
(***************************************************************************)
C10_TransformNeverGrows ==
  [][transformControlActive
       => (selectedEntities' = selectedEntities
             \/ Len(selectedEntities') <= 1)]_vars

\* A click processed in transform mode cut a selection of several entities
\* down to one.
C10_Witness ==
  /\ transformControlActive
  /\ last.kind = "Render"
  /\ last.preLen >= 2
  /\ Len(selectedEntities) = 1

(***************************************************************************)
(* C11: a processed click on an entity with ctrl not held leaves            *)
(* selectedEntities with exactly the one element of the clicked visual,     *)
(* whatever it held before.                                                 *)
(***************************************************************************)
C11_PlainClickReplaces ==
  (ProcessedEntityClick /\ ~last.ctrl)
    => selectedEntities = <<VisualId(last.hit)>>

\* Such a click outside transform mode, with several entities selected
\* before.
C11_Witness ==
  /\ ProcessedEntityClick
  /\ ~last.ctrl
  /\ ~transformControlActive
  /\ last.preLen >= 2

(***************************************************************************)
(* C12: a processed click on an entity with ctrl held and transform control *)
(* inactive appends the clicked visual's identifier at the end of           *)
(* selectedEntities and leaves the earlier elements and their order as      *)
(* they were.                                                               *)
(***************************************************************************)
C12_CtrlClickAppends ==
  [][(ProcessedEntityClick' /\ last'.ctrl /\ ~transformControlActive)
       => selectedEntities' = Append(selectedEntities, VisualId(last'.hit))]_vars

\* A ctrl-click that added a second, different entity to the selection.
C12_Witness ==
  /\ ProcessedEntityClick
  /\ last.ctrl
  /\ ~transformControlActive
  /\ last.preLen >= 1
  /\ Len(selectedEntities) = last.preLen + 1
  /\ selectedEntities[1] # selectedEntities[Len(selectedEntities)]

(***************************************************************************)
(* C13: a Render that finds a click pending issues exactly one ray-cast, at *)
(* the position of the most recent LeftClickOnScene event; with a scene and *)
(* a camera the visual it works on is the one at that position, whatever    *)
(* the earlier pending clicks were.                                         *)
(***************************************************************************)
C13_LatestRequestOnly ==
  [][(last'.kind = "Render" /\ mouseDirty)
       => /\ Cardinality(Entries(trace', {"VisualAt"})) = 1
          /\ trace'[1] = Call("VisualAt", <<clicks[Len(clicks)]>>)
          /\ (scene' /\ camera' /\ ~crashed')
               => last'.hit = VisualAt(clicks[Len(clicks)])]_vars

\* A Render consumed two clicks at different positions and selected the
\* visual of the second.
C13_Witness ==
  /\ last.kind = "Render"
  /\ camera
  /\ Len(last.clicks) = 2
  /\ last.clicks[1] # last.clicks[2]
  /\ last.clicks[1] \in Visuals
  /\ ProcessedEntityClick
  /\ last.hit = last.clicks[2]

\* selectedEntities after the first n calls of a handler's trace tr that
\* started with the list pre.
RECURSIVE ListAfter(_, _, _)
ListAfter(pre, tr, n) ==
  IF n = 0
  THEN pre
  ELSE LET before == ListAfter(pre, tr, n - 1)
       IN  IF tr[n].op = "push_back" THEN Append(before, tr[n].arg[1])
           ELSE IF tr[n].op = "clear" THEN <<>>
           ELSE before

(***************************************************************************)
(* C14: in a handler that deselects all and then selects, the               *)
(* DeselectAllEntities event is sent before every EntitiesSelected event,   *)
(* each EntitiesSelected event carries selectedEntities as it is when the   *)
(* event is sent, and the handler's last call is the closing                *)
(* EntitiesSelected event (the second of the handler, sent although         *)
(* sendEvent is false), which carries the final selection.                  *)
(***************************************************************************)
C14_ReplaceEventOrder ==
  [][(Entries(trace', {"clear"}) # {} /\ Entries(trace', {"push_back"}) # {})
       => /\ \A i \in Entries(trace', {"send DeselectAllEntities"}) :
               \A j \in Entries(trace', {"send EntitiesSelected"}) : i < j
          /\ \A j \in Entries(trace', {"send EntitiesSelected"}) :
               trace'[j].arg = ListAfter(selectedEntities, trace', j)
          /\ ~selectionHelper.sendEvent
          /\ Cardinality(Entries(trace', {"send EntitiesSelected"})) = 2
          /\ trace'[Len(trace')]
               = Call("send EntitiesSelected", selectedEntities')]_vars

\* A plain click replaced a selection of several entities.
C14_Witness ==
  /\ ProcessedEntityClick
  /\ last.preLen >= 2
  /\ ~last.ctrl
  /\ Entries(trace, {"send DeselectAllEntities"}) # {}
  /\ trace[Len(trace)] = Call("send EntitiesSelected", selectedEntities)

(***************************************************************************)
(* C15: once the scene is obtained and the camera is not, the camera stays  *)
(* null: no later Render looks it up again.                                 *)
(***************************************************************************)
C15_NoCameraRetry ==
  [][(scene /\ ~camera) => (scene' /\ ~camera')]_vars

\* A Render during which the camera could have been found left it null.
C15_Witness ==
  /\ last.kind = "Render"
  /\ last.camAvail
  /\ scene
  /\ ~camera

(***************************************************************************)
(* C18: a processed click whose ray-cast hits no visual leaves              *)
(* selectedEntities empty, sends exactly one DeselectAllEntities event and  *)
(* no EntitiesSelected event, and keeps every entry of wireBoxes.           *)
(***************************************************************************)
C18_MissDeselectsAll ==
  [][(last'.kind = "Render" /\ last'.hit = NullVisual)
       => /\ selectedEntities' = <<>>
          /\ Cardinality(Entries(trace', {"send DeselectAllEntities"})) = 1
          /\ Entries(trace', {"send EntitiesSelected"}) = {}
          /\ DOMAIN wireBoxes' = DOMAIN wireBoxes]_vars

\* A click on empty space with ctrl held and several entities selected
\* before.
C18_Witness ==
  /\ last.kind = "Render"
  /\ last.hit = NullVisual
  /\ last.ctrl
  /\ last.preLen >= 2
  /\ selectedEntities = <<>>
  /\ Cardinality(DOMAIN wireBoxes) >= 2

(***************************************************************************)
(* C19: a processed click that hits a visual whose "gazebo-entity" user     *)
(* data is kNullEntity changes nothing but mouseDirty, which it clears:     *)
(* selectedEntities, wireBoxes and the boxes' visibility stay as they were  *)
(* and no event is sent.                                                    *)
(***************************************************************************)
C19_NullEntityClickIgnored ==
  [][(last'.kind = "Render" /\ last'.hit \in Visuals
        /\ UserData(last'.hit) = kNullEntity)
       => /\ UNCHANGED <<selectedEntities, wireBoxes, selectionHelper,
                         transformControlActive, mouseEvent, everSelected>>
          /\ Entries(trace', Sends) = {}
          /\ ~mouseDirty']_vars

\* Such a click without ctrl, while an entity is selected.
C19_Witness ==
  /\ last.kind = "Render"
  /\ last.hit \in Visuals
  /\ UserData(last.hit) = kNullEntity
  /\ ~last.ctrl
  /\ ~transformControlActive
  /\ selectedEntities # <<>>

\* A Render has just consumed a pending click: it issued the ray-cast at the
\* position of the latest click and returned with mouseDirty cleared.
ClickConsumed ==
  /\ ~mouseDirty
  /\ last.kind = "Render"
  /\ last.dirty
  /\ last.clicks # <<>>
  /\ trace # <<>>
  /\ trace[1] = Call("VisualAt", <<last.clicks[Len(last.clicks)]>>)

(***************************************************************************)
(* C17: with a scene and a camera and Render events occurring fairly, every *)
(* state with mouseDirty true is followed by a state with mouseDirty false  *)
(* reached by a Render that ray-cast the position of the latest click       *)
(* pending; and every Render that found mouseDirty true returns with it     *)
(* false.                                                                   *)
(***************************************************************************)
C17_PendingClickIsConsumed ==
  /\ (mouseDirty /\ scene /\ camera) ~> ClickConsumed
  /\ []((last.kind = "Render" /\ last.dirty) => ~mouseDirty)

\* A Render consumed a click that was followed by a second click while it
\* was pending.
C17_Witness ==
  /\ ClickConsumed
  /\ scene /\ camera
  /\ Len(last.clicks) = 2

(***************************************************************************)
(* C16: with the click handler and the Render handler on different threads  *)
(* and interleaving at their individual reads and writes of mouseEvent and  *)
(* mouseDirty, every click is ray-cast by at most one Render callback.      *)
(***************************************************************************)
C16_EachClickCastOnce ==
  \A k \in DOMAIN race.casts : race.casts[k] <= 1

====
